---- MODULE Spec2Model ----
(***************************************************************************)
(* The probe loop of registry-monitor (src/monitor.go): the goroutine      *)
(* mainLoop started by runMonitor, the package-level flags healthy and     *)
(* status it writes, the four Prometheus metrics it feeds, and the         *)
(* container runtime and registry it talks to.                             *)
(*                                                                         *)
(* Every call on the docker client either succeeds or returns an error;    *)
(* the outcome is drawn with \E where the call is made.  The outcomes of   *)
(* this iteration's PullImage and PushImage are drawn when the iteration   *)
(* starts and kept in the variable registry (the registry is up or down    *)
(* for pulls and for pushes during the iteration).                         *)
(***************************************************************************)
EXTENDS Integers, Sequences, FiniteSets, TLC

\* ---------------------------------------------------------------- bounds
\* Iterations of the for loop of mainLoop that the model follows.
MaxIter == 3
\* Images other than the repository's latest image the runtime may hold.
MaxImages == 1

\* ------------------------------------------------------------- constants
\* duration := 2 * time.Minute, in seconds.
NominalSleep == 120
\* duration = 30 * time.Second, in seconds.
FailureSleep == 30
\* The image the repository's tag "latest" names.
TopImage == 0

ImageIds == 0..MaxImages
\* Container names; clearAllContainers spares the one named "monitor",
\* createTagLayer creates "updatedcontainer".
ContainerNames == {"monitor", "other", "updatedcontainer"}

VARIABLES
    healthy,      \* var healthy bool
    status,       \* var status bool
    underDocker,  \* strings.ToLower(os.Getenv("UNDER_DOCKER")) == "true"
    pc,           \* where mainLoop stands
    firstLoop,    \* runMonitor's firstLoop
    duration,     \* mainLoop's duration, in seconds
    promSuccess,  \* promSuccessMetric's value
    promFailure,  \* promFailureMetric's value
    promPull,     \* observations of promPullMetric
    promPush,     \* observations of promPushMetric
    containers,   \* the runtime's containers (by name)
    images,       \* the runtime's images, in the order ListImages returns them
    skipImages,   \* clearAllImages' skipImages
    registry,     \* whether this iteration's PullImage / PushImage succeed
    iter,         \* history: iterations started
    errs,         \* history: the calls that returned an error in this iteration
    fatal,        \* history: a fatal step has failed
    base,         \* history: flags and metrics when this iteration started
    invoked,      \* history: the steps invoked in this iteration, in order
    removeLog,    \* history: every RemoveImage of clearAllImages
    sleeps,       \* history: every time.Sleep's duration
    outcomes,     \* history: how each iteration that reached `continue` or the loop's end ended
    req           \* the request the status server is handling, or the last one it answered

vars == <<healthy, status, underDocker, pc, firstLoop, duration, promSuccess,
          promFailure, promPull, promPush, containers, images, skipImages,
          registry, iter, errs, fatal, base, invoked, removeLog, sleeps,
          outcomes, req>>

flags == <<healthy, status>>
metrics == <<promSuccess, promFailure, promPull, promPush>>
runtime == <<containers, images>>

Range(s) == {s[i] : i \in 1..Len(s)}

Without(s, S) == SelectSeq(s, LAMBDA x : x \notin S)

\* The injective sequences over S: the listings a runtime can give.
Listings(S) ==
    UNION {{s \in [1..n -> S] : \A i, j \in 1..n : i # j => s[i] # s[j]} :
           n \in 0..Cardinality(S)}

Registries == [pull : BOOLEAN, push : BOOLEAN]

\* fmt.Fprintf(w, "%t", b).
FormatBool(b) == IF b THEN "true" ELSE "false"

\* No request yet.
NoRequest == [path |-> "", phase |-> "idle", code |-> 0, body |-> ""]

Snapshot ==
    [healthy |-> healthy, success |-> promSuccess, failure |-> promFailure,
     pull |-> promPull, push |-> promPush]

Init ==
    /\ healthy = FALSE
    /\ status = FALSE
    /\ underDocker \in BOOLEAN
    /\ pc = "top"
    /\ firstLoop = TRUE
    /\ duration = NominalSleep
    /\ promSuccess = 0
    /\ promFailure = 0
    /\ promPull = 0
    /\ promPush = 0
    /\ containers \in SUBSET ContainerNames
    /\ images \in Listings(ImageIds)
    /\ skipImages = {}
    /\ registry = [pull |-> TRUE, push |-> TRUE]
    /\ iter = 0
    /\ errs = {}
    /\ fatal = FALSE
    /\ base = [healthy |-> FALSE, success |-> 0, failure |-> 0, pull |-> 0, push |-> 0]
    /\ invoked = <<>>
    /\ removeLog = <<>>
    /\ sleeps = <<>>
    /\ outcomes = <<>>
    /\ req = NoRequest

\* ------------------------------------------------------ the step functions
\* Each step function of monitor.go is an operator from the outcomes of its
\* docker calls to what it leaves behind: the flag it may write, the runtime's
\* state, its return value (ret) and the calls that returned an error (err).

\* clearAllContainers going on to the next step after a failed ListContainers.
clearAllContainers_ignoresError(listOk, removed) ==
    LET targets == containers \ {"monitor"} IN
    IF ~listOk
    THEN [healthy |-> FALSE, containers |-> containers, ret |-> TRUE,
          err |-> {"ListContainers"}]
    ELSE IF removed # targets
    THEN [healthy |-> FALSE, containers |-> containers \ removed, ret |-> FALSE,
          err |-> {"RemoveContainer"}]
    ELSE [healthy |-> healthy, containers |-> containers \ targets, ret |-> healthy,
          err |-> {}]

\* clearAllContainers without the `stringInSlice("monitor", ...)` test.
clearAllContainers_sparesNone(listOk, removed) ==
    LET targets == containers \ {"monitor"} IN
    IF ~listOk
    THEN [healthy |-> FALSE, containers |-> containers, ret |-> FALSE,
          err |-> {"ListContainers"}]
    ELSE IF removed # targets
    THEN [healthy |-> FALSE, containers |-> containers \ removed, ret |-> FALSE,
          err |-> {"RemoveContainer"}]
    ELSE [healthy |-> healthy, containers |-> {}, ret |-> healthy, err |-> {}]

\* clearAllContainers.  removed: the containers RemoveContainer removed before
\* the loop ended; a RemoveContainer failed iff one to remove is left.
clearAllContainers(listOk, removed) ==
    LET targets == containers \ {"monitor"} IN
    IF ~listOk
    THEN [healthy |-> FALSE, containers |-> containers, ret |-> FALSE,
          err |-> {"ListContainers"}]
    ELSE IF removed # targets
    THEN [healthy |-> FALSE, containers |-> containers \ removed, ret |-> FALSE,
          err |-> {"RemoveContainer"}]
    ELSE [healthy |-> healthy, containers |-> containers \ targets, ret |-> healthy,
          err |-> {}]

\* clearAllImages with a failed removal in constrained mode counted as progress
\* and not remembered: the loop goes round again.
clearImagesPass_retries(listOk, rmOk, cascade) ==
    LET imagesFound == \E i \in 1..Len(images) : images[i] \notin skipImages
        first == images[1]
        same == [healthy |-> healthy, images |-> images, skip |-> skipImages,
                 next |-> "return", ret |-> TRUE, err |-> {}, fatal |-> FALSE,
                 attempt |-> <<>>]
    IN
    IF ~listOk
    THEN [same EXCEPT !.healthy = FALSE, !.ret = FALSE, !.err = {"ListImages"},
                      !.fatal = TRUE]
    ELSE IF ~imagesFound
    THEN [same EXCEPT !.ret = healthy]
    ELSE IF first \in skipImages
    THEN same
    ELSE IF ~rmOk
    THEN IF ~underDocker
         THEN [same EXCEPT !.healthy = FALSE, !.ret = FALSE, !.err = {"RemoveImage"},
                           !.fatal = TRUE,
                           !.attempt = <<[id |-> first, ok |-> FALSE, iter |-> iter]>>]
         ELSE [same EXCEPT !.next = "loop", !.err = {"RemoveImage"},
                           !.attempt = <<[id |-> first, ok |-> FALSE, iter |-> iter]>>]
    ELSE [same EXCEPT !.images = Without(images, {first} \cup cascade),
                      !.next = "loop",
                      !.attempt = <<[id |-> first, ok |-> TRUE, iter |-> iter]>>]

\* clearAllImages without the UNDER_DOCKER test: a failed removal is fatal in
\* constrained mode too.
clearImagesPass_alwaysFatal(listOk, rmOk, cascade) ==
    LET imagesFound == \E i \in 1..Len(images) : images[i] \notin skipImages
        first == images[1]
        same == [healthy |-> healthy, images |-> images, skip |-> skipImages,
                 next |-> "return", ret |-> TRUE, err |-> {}, fatal |-> FALSE,
                 attempt |-> <<>>]
    IN
    IF ~listOk
    THEN [same EXCEPT !.healthy = FALSE, !.ret = FALSE, !.err = {"ListImages"},
                      !.fatal = TRUE]
    ELSE IF ~imagesFound
    THEN [same EXCEPT !.ret = healthy]
    ELSE IF first \in skipImages
    THEN same
    ELSE IF ~rmOk
    THEN [same EXCEPT !.healthy = FALSE, !.ret = FALSE, !.err = {"RemoveImage"},
                      !.fatal = TRUE,
                      !.attempt = <<[id |-> first, ok |-> FALSE, iter |-> iter]>>]
    ELSE [same EXCEPT !.images = Without(images, {first} \cup cascade),
                      !.next = "loop",
                      !.attempt = <<[id |-> first, ok |-> TRUE, iter |-> iter]>>]

\* One turn of the for loop of clearAllImages: ListImages, the imagesFound scan,
\* the removal loop over images[:1].  cascade: the other images the runtime
\* deletes along with the removed one.  next = "loop": the for loop goes round
\* again; "return": the function returns ret.  attempt: the RemoveImage made.
clearImagesPass(listOk, rmOk, cascade) ==
    LET imagesFound == \E i \in 1..Len(images) : images[i] \notin skipImages
        first == images[1]
        same == [healthy |-> healthy, images |-> images, skip |-> skipImages,
                 next |-> "return", ret |-> TRUE, err |-> {}, fatal |-> FALSE,
                 attempt |-> <<>>]
    IN
    IF ~listOk
    THEN [same EXCEPT !.healthy = FALSE, !.ret = FALSE, !.err = {"ListImages"},
                      !.fatal = TRUE]
    ELSE IF ~imagesFound
    THEN [same EXCEPT !.ret = healthy]
    ELSE IF first \in skipImages
    THEN same
    ELSE IF ~rmOk
    THEN IF ~underDocker
         THEN [same EXCEPT !.healthy = FALSE, !.ret = FALSE, !.err = {"RemoveImage"},
                           !.fatal = TRUE,
                           !.attempt = <<[id |-> first, ok |-> FALSE, iter |-> iter]>>]
         ELSE [same EXCEPT !.skip = skipImages \cup {first}, !.err = {"RemoveImage"},
                           !.attempt = <<[id |-> first, ok |-> FALSE, iter |-> iter]>>]
    ELSE [same EXCEPT !.images = Without(images, {first} \cup cascade),
                      !.next = "loop",
                      !.attempt = <<[id |-> first, ok |-> TRUE, iter |-> iter]>>]

\* pullTestImage without `status = false` on a failed pull.
pullTestImage_keepsStatus(ok) ==
    [status |-> status, ret |-> ok, err |-> IF ok THEN {} ELSE {"PullImage"}]

\* pullTestImage.
pullTestImage(ok) ==
    IF ~ok
    THEN [status |-> FALSE, ret |-> FALSE, err |-> {"PullImage"}]
    ELSE [status |-> status, ret |-> TRUE, err |-> {}]

\* deleteTopLayer going on after a failed ImageHistory.
deleteTopLayer_ignoresError(histOk, tagged, rmOk) ==
    IF ~histOk
    THEN [healthy |-> FALSE, images |-> images, ret |-> TRUE, err |-> {"ImageHistory"}]
    ELSE IF tagged /\ ~rmOk
    THEN [healthy |-> FALSE, images |-> images, ret |-> FALSE, err |-> {"RemoveImage"}]
    ELSE [healthy |-> healthy,
          images |-> IF tagged THEN Without(images, {TopImage}) ELSE images,
          ret |-> healthy, err |-> {}]

\* deleteTopLayer ending with `return true` instead of `return healthy`.
deleteTopLayer_returnsTrue(histOk, tagged, rmOk) ==
    IF ~histOk
    THEN [healthy |-> FALSE, images |-> images, ret |-> FALSE, err |-> {"ImageHistory"}]
    ELSE IF tagged /\ ~rmOk
    THEN [healthy |-> FALSE, images |-> images, ret |-> FALSE, err |-> {"RemoveImage"}]
    ELSE [healthy |-> healthy,
          images |-> IF tagged THEN Without(images, {TopImage}) ELSE images,
          ret |-> TRUE, err |-> {}]

\* deleteTopLayer.  tagged: the image history has an entry tagged "latest".
deleteTopLayer(histOk, tagged, rmOk) ==
    IF ~histOk
    THEN [healthy |-> FALSE, images |-> images, ret |-> FALSE, err |-> {"ImageHistory"}]
    ELSE IF tagged /\ ~rmOk
    THEN [healthy |-> FALSE, images |-> images, ret |-> FALSE, err |-> {"RemoveImage"}]
    ELSE [healthy |-> healthy,
          images |-> IF tagged THEN Without(images, {TopImage}) ELSE images,
          ret |-> healthy, err |-> {}]

\* createTagLayer.
createTagLayer(createOk, commitOk) ==
    IF ~createOk
    THEN [healthy |-> FALSE, containers |-> containers, images |-> images,
          ret |-> FALSE, err |-> {"CreateContainer"}]
    ELSE IF ~commitOk
    THEN [healthy |-> FALSE, containers |-> containers \cup {"updatedcontainer"},
          images |-> images, ret |-> FALSE, err |-> {"CommitContainer"}]
    ELSE [healthy |-> healthy, containers |-> containers \cup {"updatedcontainer"},
          images |-> IF TopImage \in Range(images) THEN images
                     ELSE <<TopImage>> \o images,
          ret |-> healthy, err |-> {}]

\* pushTestImage.
pushTestImage(ok) ==
    IF ~ok
    THEN [status |-> FALSE, ret |-> FALSE, err |-> {"PushImage"}]
    ELSE [status |-> TRUE, ret |-> TRUE, err |-> {}]

\* mainLoop without `duration = 30 * time.Second` after a failed pull or push.
transactionFailed_keepsDuration ==
    [duration |-> duration, promFailure |-> promFailure + 1]

\* mainLoop incrementing the failure metric twice after a failed pull or push.
transactionFailed_countsTwice ==
    [duration |-> FailureSleep, promFailure |-> promFailure + 2]

\* mainLoop's handling of a failed pull or push: the shortened sleep and the
\* failure metric.
transactionFailed ==
    [duration |-> FailureSleep, promFailure |-> promFailure + 1]

\* mainLoop's end of a successful iteration: the push time metric, the nominal
\* sleep and the success metric.
testSuccessful ==
    [promPush |-> promPush + 1, duration |-> NominalSleep,
     promSuccess |-> promSuccess + 1]

\* --------------------------------------------------------------- mainLoop
\* mainLoop with a ceiling on retries: it stops after two failures.
LoopTop_givesUp ==
    /\ pc = "top"
    /\ iter < MaxIter
    /\ promFailure < 2
    /\ sleeps' = IF firstLoop THEN sleeps ELSE Append(sleeps, duration)
    /\ pc' = "start"
    /\ UNCHANGED <<req, flags, underDocker, firstLoop, duration, metrics, runtime,
                   skipImages, registry, iter, errs, fatal, base, invoked,
                   removeLog, outcomes>>

\* The top of the for loop: sleep, except before the first iteration.
LoopTop ==
    /\ pc = "top"
    /\ iter < MaxIter
    /\ sleeps' = IF firstLoop THEN sleeps ELSE Append(sleeps, duration)
    /\ pc' = "start"
    /\ UNCHANGED <<req, flags, underDocker, firstLoop, duration, metrics, runtime,
                   skipImages, registry, iter, errs, fatal, base, invoked,
                   removeLog, outcomes>>

\* "Starting test": firstLoop = false, status = true, newDockerClient.
StartTest ==
    \E connOk \in BOOLEAN, reg \in Registries :
        /\ pc = "start"
        /\ firstLoop' = FALSE
        /\ status' = TRUE
        /\ healthy' = IF connOk THEN healthy ELSE FALSE
        /\ pc' = IF ~connOk THEN "halted"
                 ELSE IF underDocker THEN "images" ELSE "containers"
        /\ skipImages' = {}
        /\ registry' = reg
        /\ iter' = iter + 1
        /\ errs' = IF connOk THEN {} ELSE {"NewClient"}
        /\ fatal' = (fatal \/ ~connOk)
        /\ base' = Snapshot
        /\ invoked' = <<"connect">>
        /\ UNCHANGED <<req, underDocker, duration, metrics, runtime, removeLog, sleeps,
                       outcomes>>

\* "Clearing all containers".
ClearContainers ==
    \E listOk \in BOOLEAN, removed \in SUBSET (containers \ {"monitor"}) :
        LET r == clearAllContainers(listOk, removed) IN
        /\ pc = "containers"
        /\ healthy' = r.healthy
        /\ containers' = r.containers
        /\ pc' = IF r.ret THEN "images" ELSE "halted"
        /\ skipImages' = {}
        /\ errs' = errs \cup r.err
        /\ fatal' = (fatal \/ r.err # {})
        /\ invoked' = Append(invoked, "containers")
        /\ UNCHANGED <<req, status, underDocker, firstLoop, duration, metrics, images,
                       registry, iter, base, removeLog, sleeps, outcomes>>

\* "Clearing all images": one turn of the loop of clearAllImages.
ClearImages ==
    \E listOk \in BOOLEAN, rmOk \in BOOLEAN, cascade \in SUBSET Range(images) :
        LET r == clearImagesPass(listOk, rmOk, cascade) IN
        /\ pc = "images"
        /\ healthy' = r.healthy
        /\ images' = r.images
        /\ skipImages' = r.skip
        /\ pc' = IF r.next = "loop" THEN "images"
                 ELSE IF r.ret THEN "pull" ELSE "halted"
        /\ errs' = errs \cup r.err
        /\ fatal' = (fatal \/ r.fatal)
        /\ removeLog' = removeLog \o r.attempt
        /\ invoked' = IF invoked[Len(invoked)] = "images" THEN invoked
                      ELSE Append(invoked, "images")
        /\ UNCHANGED <<req, status, underDocker, firstLoop, duration, metrics, containers,
                       registry, iter, base, sleeps, outcomes>>

\* "Pulling test image", the failure metric or the pull time metric.
PullStep ==
    LET r == pullTestImage(registry.pull) IN
    /\ pc = "pull"
    /\ status' = r.status
    /\ errs' = errs \cup r.err
    /\ invoked' = Append(invoked, "pull")
    /\ IF ~r.ret
       THEN /\ duration' = transactionFailed.duration
            /\ promFailure' = transactionFailed.promFailure
            /\ pc' = "top"
            /\ outcomes' = Append(outcomes, "failed")
            /\ UNCHANGED <<promPull, images>>
       ELSE /\ promPull' = promPull + 1
            /\ images' = IF TopImage \in Range(images) THEN images
                         ELSE <<TopImage>> \o images
            /\ pc' = "delete"
            /\ UNCHANGED <<duration, promFailure, outcomes>>
    /\ UNCHANGED <<req, healthy, underDocker, firstLoop, promSuccess, promPush, containers,
                   skipImages, registry, iter, fatal, base, removeLog, sleeps>>

\* "Deleting top layer".
DeleteStep(histOk, tagged, rmOk) ==
    LET r == deleteTopLayer(histOk, tagged, rmOk) IN
    /\ healthy' = r.healthy
    /\ images' = r.images
    /\ pc' = IF r.ret THEN "create" ELSE "halted"
    /\ errs' = errs \cup r.err
    /\ fatal' = (fatal \/ r.err # {})
    /\ invoked' = Append(invoked, "delete")
    /\ UNCHANGED <<req, status, underDocker, firstLoop, duration, metrics, containers,
                   skipImages, registry, iter, base, removeLog, sleeps, outcomes>>

\* "Creating new top layer".
CreateStep(createOk, commitOk) ==
    LET r == createTagLayer(createOk, commitOk) IN
    /\ healthy' = r.healthy
    /\ containers' = r.containers
    /\ images' = r.images
    /\ pc' = IF r.ret THEN "push" ELSE "halted"
    /\ errs' = errs \cup r.err
    /\ fatal' = (fatal \/ r.err # {})
    /\ invoked' = Append(invoked, "create")
    /\ UNCHANGED <<req, status, underDocker, firstLoop, duration, metrics, skipImages,
                   registry, iter, base, removeLog, sleeps, outcomes>>

\* "Pushing test image", the failure metric or "Test successful".
PushStep ==
    LET r == pushTestImage(registry.push) IN
    /\ status' = r.status
    /\ errs' = errs \cup r.err
    /\ invoked' = Append(invoked, "push")
    /\ pc' = "top"
    /\ IF ~r.ret
       THEN /\ duration' = transactionFailed.duration
            /\ promFailure' = transactionFailed.promFailure
            /\ outcomes' = Append(outcomes, "failed")
            /\ UNCHANGED <<promPush, promSuccess>>
       ELSE /\ promPush' = testSuccessful.promPush
            /\ duration' = testSuccessful.duration
            /\ promSuccess' = testSuccessful.promSuccess
            /\ outcomes' = Append(outcomes, "success")
            /\ UNCHANGED promFailure
    /\ UNCHANGED <<req, healthy, underDocker, firstLoop, promPull, runtime, skipImages,
                   registry, iter, fatal, base, removeLog, sleeps>>

\* The write half of the transaction, after the pull time metric: delete the
\* top layer, create a new one, push.  The step taken is the one pc names.
WriteHalf ==
    \E a \in BOOLEAN, b \in BOOLEAN, c \in BOOLEAN :
        /\ pc \in {"delete", "create", "push"}
        /\ CASE pc = "delete" -> DeleteStep(a, b, c)
             [] pc = "create" -> CreateStep(a, b)
             [] pc = "push" -> PushStep


\* ---------------------------------------------------------- status server
\* net/http answers 200 unless WriteHeader was called.  Each handler reads its
\* flag twice, unsynchronised with mainLoop: once for the status code, once
\* for the body; mainLoop may run between the two reads.

\* healthHandler: `if !healthy { w.WriteHeader(503) }`.
healthHandlerHeader ==
    /\ req.phase # "pending"
    /\ req' = [path |-> "/health", phase |-> "pending",
               code |-> IF ~healthy THEN 503 ELSE 200, body |-> ""]
    /\ UNCHANGED <<flags, underDocker, pc, firstLoop, duration, metrics, runtime,
                   skipImages, registry, iter, errs, fatal, base, invoked,
                   removeLog, sleeps, outcomes>>

\* healthHandler: `fmt.Fprintf(w, "%t", healthy)`.
healthHandlerBody ==
    /\ req.phase = "pending"
    /\ req.path = "/health"
    /\ req' = [req EXCEPT !.phase = "done", !.body = FormatBool(healthy)]
    /\ UNCHANGED <<flags, underDocker, pc, firstLoop, duration, metrics, runtime,
                   skipImages, registry, iter, errs, fatal, base, invoked,
                   removeLog, sleeps, outcomes>>

\* statusHandler waiting for mainLoop to be between iterations before it reads.
statusHandlerHeader_waits ==
    /\ req.phase # "pending"
    /\ pc \in {"top", "halted"}
    /\ req' = [path |-> "/status", phase |-> "pending",
               code |-> IF ~status THEN 400 ELSE 200, body |-> ""]
    /\ UNCHANGED <<flags, underDocker, pc, firstLoop, duration, metrics, runtime,
                   skipImages, registry, iter, errs, fatal, base, invoked,
                   removeLog, sleeps, outcomes>>

\* statusHandler: `if !status { w.WriteHeader(400) }`.
statusHandlerHeader ==
    /\ req.phase # "pending"
    /\ req' = [path |-> "/status", phase |-> "pending",
               code |-> IF ~status THEN 400 ELSE 200, body |-> ""]
    /\ UNCHANGED <<flags, underDocker, pc, firstLoop, duration, metrics, runtime,
                   skipImages, registry, iter, errs, fatal, base, invoked,
                   removeLog, sleeps, outcomes>>

\* statusHandler: `fmt.Fprintf(w, "%t", status)`.
statusHandlerBody ==
    /\ req.phase = "pending"
    /\ req.path = "/status"
    /\ req' = [req EXCEPT !.phase = "done", !.body = FormatBool(status)]
    /\ UNCHANGED <<flags, underDocker, pc, firstLoop, duration, metrics, runtime,
                   skipImages, registry, iter, errs, fatal, base, invoked,
                   removeLog, sleeps, outcomes>>

Next ==
    \/ LoopTop
    \/ StartTest
    \/ ClearContainers
    \/ ClearImages
    \/ PullStep
    \/ WriteHalf
    \/ healthHandlerHeader
    \/ healthHandlerBody
    \/ statusHandlerHeader
    \/ statusHandlerBody

Spec == Init /\ [][Next]_vars

\* One step of the goroutine mainLoop.
Loop ==
    \/ LoopTop
    \/ StartTest
    \/ ClearContainers
    \/ ClearImages
    \/ PullStep
    \/ WriteHalf

\* The goroutine keeps being scheduled, and time.Sleep and every docker call
\* return: mainLoop takes its next step whenever it has one.
FairSpec == Spec /\ WF_vars(Loop)

\* ------------------------------------------------------------ type check
TypeOK ==
    /\ healthy \in BOOLEAN /\ status \in BOOLEAN /\ underDocker \in BOOLEAN
    /\ pc \in {"top", "start", "containers", "images", "pull", "delete", "create",
               "push", "halted"}
    /\ duration \in {NominalSleep, FailureSleep}
    /\ containers \subseteq ContainerNames
    /\ Range(images) \subseteq ImageIds
    /\ skipImages \subseteq ImageIds
    /\ iter \in 0..MaxIter

\* Facts of this program that the claims below rest on: nothing ever assigns
\* true to healthy, which starts as Go's zero value, so every `return healthy`
\* returns false and mainLoop never gets past deleteTopLayer.
NeverHealthy == ~healthy
TailUnreached == pc \notin {"create", "push"}

\* ----------------------------------------------------------------- claims
\* The current iteration is over: it reached `continue` or the end of the loop
\* body (pc = "top"), or mainLoop returned (pc = "halted").
IterationEnded == iter >= 1 /\ pc \in {"top", "halted"}

FailedInCall(i) ==
    \E j \in 1..Len(removeLog) :
        /\ removeLog[j].id = i
        /\ ~removeLog[j].ok
        /\ removeLog[j].iter = iter

\* C1: healthy stays true unless a fatal step fails; once false it stays false,
\* and no iteration begins while it is false.
C1_HealthyUntilFatal ==
    [][/\ (healthy' \/ fatal')
       /\ (~healthy => ~healthy')
       /\ (iter' # iter => healthy)]_vars

\* C2: before the probe loop has executed any step, healthy and status are
\* both true.
C2_FlagsStartTrue == iter = 0 => (healthy /\ status)

\* C3: an iteration in which no call fails runs through push and ends with
\* status and healthy true, one more success, one more pull and one more push
\* observation, and the next sleep at 2 minutes.
C3_AllStepsSucceed ==
    (IterationEnded /\ errs = {} /\ registry.pull /\ registry.push) =>
        /\ pc = "top"
        /\ invoked[Len(invoked)] = "push"
        /\ status /\ healthy
        /\ promSuccess = base.success + 1
        /\ promPull = base.pull + 1
        /\ promPush = base.push + 1
        /\ duration = NominalSleep

\* C4: from the start of an iteration on, status is true, and it is false iff
\* the pull or the push of that iteration failed.
C4_StatusIffTransactionFailed ==
    iter >= 1 => (status <=> errs \cap {"PullImage", "PushImage"} = {})

C4_Witness == iter >= 2 /\ pc = "top" /\ "PullImage" \in errs /\ ~status

\* C5: an iteration whose pull fails ends with status false, one more failure,
\* healthy still true, the next sleep at 30 seconds, no pull observation, and
\* delete, create and push not invoked.
C5_PullFailure ==
    (pc = "top" /\ "PullImage" \in errs) =>
        /\ ~status
        /\ promFailure = base.failure + 1
        /\ healthy
        /\ duration = FailureSleep
        /\ promPull = base.pull
        /\ Range(invoked) \cap {"delete", "create", "push"} = {}

C7_FatalHalts ==
    fatal =>
        /\ pc = "halted"
        /\ ~healthy
        /\ promSuccess = base.success
        /\ promFailure = base.failure

C7_Witness == fatal /\ pc = "halted" /\ iter >= 2 /\ "ImageHistory" \in errs

\* C8: no sleep before the first iteration, exactly one before every later
\* one: 30 seconds after an iteration that ended in a pull or push failure,
\* 2 minutes after a successful one.
C8_Pacing ==
    /\ Len(sleeps) = (IF pc = "start" THEN iter ELSE IF iter = 0 THEN 0 ELSE iter - 1)
    /\ Len(sleeps) <= Len(outcomes)
    /\ \A k \in 1..Len(sleeps) :
           sleeps[k] = IF outcomes[k] = "failed" THEN FailureSleep ELSE NominalSleep

C8_Witness ==
    /\ iter >= 3
    /\ Len(sleeps) >= 2
    /\ sleeps[2] = FailureSleep
    /\ outcomes[2] = "failed"

\* C9 (as claimed): in constrained mode an image whose removal failed is never
\* attempted again by clear images, in the same or in any later iteration.
C9_NeverAttemptedAgain ==
    underDocker =>
        \A j, k \in 1..Len(removeLog) :
            (j < k /\ ~removeLog[j].ok) => removeLog[k].id # removeLog[j].id

\* C9 (amended): in constrained mode an image whose removal failed is
\* remembered in skipImages and not attempted again in the same call of clear
\* images, and the failed removal ends the call, which returns.
C9_NotAgainInSameCall ==
    underDocker =>
        /\ \A j, k \in 1..Len(removeLog) :
               (j < k /\ ~removeLog[j].ok /\ removeLog[j].iter = removeLog[k].iter)
                   => removeLog[k].id # removeLog[j].id
        /\ skipImages = {i \in ImageIds : FailedInCall(i)}
        /\ (skipImages # {} => pc # "images")

C9_Witness ==
    /\ underDocker
    /\ iter >= 2
    /\ pc = "pull"
    /\ \E i \in Range(images) : FailedInCall(i)

\* C10: when clear images returns success, every image the runtime still holds
\* is one whose removal was attempted and failed in constrained mode.
C10_NothingRemovableLeft ==
    pc = "pull" => \A i \in Range(images) : underDocker /\ FailedInCall(i)

\* The RemoveImage calls clear images has made in the current iteration.
AttemptsInCall == {j \in 1..Len(removeLog) : removeLog[j].iter = iter}

\* C11: clear images terminates: every turn of its loop (a step of mainLoop,
\* which leaves req alone) either returns or leaves the runtime with fewer
\* images than it listed, whatever the removals answer, so a call that has
\* begun returns.
C11_ClearImagesTerminates ==
    /\ [][(pc = "images" /\ pc' = "images" /\ req' = req)
              => Len(images') < Len(images)]_vars
    /\ (pc = "images" ~> pc # "images")

C11_Witness ==
    /\ pc \in {"pull", "halted"}
    /\ invoked[Len(invoked)] = "images"
    /\ Cardinality(AttemptsInCall) >= 2

TransactionFailed == errs \cap {"PullImage", "PushImage"} # {}

\* C12: a RemoveImage of clear images that fails leaves healthy alone and lets
\* the step report success in constrained mode; outside it the failure sets
\* healthy false and the step reports failure, which halts the loop.
C12_RemovalFailureByMode ==
    [][(Len(removeLog') > Len(removeLog) /\ ~removeLog'[Len(removeLog')].ok) =>
          IF underDocker
          THEN healthy' = healthy /\ ~fatal' /\ pc' = "pull"
          ELSE ~healthy' /\ fatal' /\ pc' = "halted"]_vars

C12_Witness ==
    /\ underDocker
    /\ iter = 1
    /\ pc = "pull"
    /\ errs = {"RemoveImage"}
    /\ ~fatal

\* C13: the status code and the body of every answered request agree with each
\* other: /health answers 200 "true" or 503 "false", /status 200 "true" or 400
\* "false".
C13_ResponsesAgree ==
    req.phase = "done" =>
        /\ req.path = "/health" => req.code = (IF req.body = "true" THEN 200 ELSE 503)
        /\ req.path = "/status" => req.code = (IF req.body = "true" THEN 200 ELSE 400)

\* C14: after a failed pull or push, however many failures came before (short
\* of the iterations the model follows), the loop starts another iteration,
\* which clears the failure and sets status back to true; status stays true
\* in an iteration in which nothing fails.
C14_RetriedWithoutCeiling ==
    /\ (pc = "top" /\ TransactionFailed /\ iter < MaxIter)
           ~> (status /\ ~TransactionFailed /\ iter > 1)
    /\ []((iter >= 1 /\ errs = {}) => status)

C14_Witness ==
    /\ iter >= 3
    /\ promFailure >= 2
    /\ errs = {}
    /\ status

\* C15: the status server can take a request, and finish the one it is
\* handling, in every state of the probe loop, and a handler's step changes
\* nothing but the request.
Responsive ==
    IF req.phase = "pending"
    THEN ENABLED (healthHandlerBody \/ statusHandlerBody)
    ELSE (ENABLED healthHandlerHeader) /\ (ENABLED statusHandlerHeader)

C15_ServerNeverWaits ==
    /\ []Responsive
    /\ [][req' # req =>
             UNCHANGED <<flags, metrics, pc, firstLoop, duration, runtime,
                         skipImages, iter>>]_vars

C15_Witness ==
    /\ pc = "halted"
    /\ fatal
    /\ req.phase = "done"
    /\ ENABLED statusHandlerHeader

\* The steps of an iteration, in the order of mainLoop.
StepOrder ==
    IF underDocker
    THEN <<"connect", "images", "pull", "delete", "create", "push">>
    ELSE <<"connect", "containers", "images", "pull", "delete", "create", "push">>

\* C16: the steps invoked in an iteration are a prefix of the fixed order, the
\* step mainLoop is about to run is the next of that order, and no step runs
\* after one that failed.
C16_FixedOrder ==
    iter >= 1 =>
        /\ Len(invoked) <= Len(StepOrder)
        /\ \A k \in 1..Len(invoked) : invoked[k] = StepOrder[k]
        /\ pc \in {"containers", "images", "pull", "delete", "create", "push"} =>
               \/ StepOrder[Len(invoked) + 1] = pc
               \/ pc = "images" /\ invoked[Len(invoked)] = "images"
        /\ (fatal \/ TransactionFailed) => pc \in {"top", "start", "halted"}

C16_Witness ==
    /\ pc = "delete"
    /\ invoked = <<"connect", "images", "pull">>

\* C17: clear containers never removes the container named "monitor"; when it
\* ends without an error every other container is gone; a failed enumeration
\* or removal sets healthy false and halts; in constrained mode no container
\* is removed.
C17_ClearContainers ==
    /\ [][/\ "monitor" \in containers => "monitor" \in containers'
          /\ underDocker => containers' = containers]_vars
    /\ []((~underDocker /\ "containers" \in Range(invoked)) =>
             IF errs = {}
             THEN containers \subseteq {"monitor"}
             ELSE ~healthy /\ fatal /\ pc = "halted")

C17_Witness ==
    /\ ~underDocker
    /\ "containers" \in Range(invoked)
    /\ errs = {}
    /\ containers = {"monitor"}

\* C18: mainLoop goes past clear containers and delete top layer only when
\* healthy is true, so with healthy false create and push are not invoked and
\* the success counter does not move.
C18_ProceedsOnlyIfHealthy ==
    /\ pc \in {"create", "push"} => healthy
    /\ (~underDocker /\ pc \in {"images", "pull", "delete"}) => healthy
    /\ ~healthy => (Range(invoked) \cap {"create", "push"} = {}
                    /\ promSuccess = base.success)

C18_Witness ==
    /\ pc = "halted"
    /\ ~fatal
    /\ ~healthy
    /\ invoked = <<"connect", "images", "pull", "delete">>

\* C19: whenever mainLoop is about to sleep, the duration is 30 seconds
\* exactly when status is false and 2 minutes exactly when status is true.
C19_BackoffAgreesWithStatus ==
    (pc = "top" /\ ~firstLoop) =>
        /\ duration = FailureSleep <=> ~status
        /\ duration = NominalSleep <=> status

C19_Witness ==
    /\ pc = "top"
    /\ ~firstLoop
    /\ iter = 2
    /\ duration = FailureSleep
    /\ ~status

\* C20: no metric ever decreases, an iteration adds at most 1 to the sum of
\* the success and failure counters, between iterations the push
\* observations equal the successes, and the pull observations are at least
\* the push observations.
C20_MetricsConsistent ==
    /\ [][/\ promSuccess' >= promSuccess
          /\ promFailure' >= promFailure
          /\ promPull' >= promPull
          /\ promPush' >= promPush]_vars
    /\ [](/\ promSuccess + promFailure <= base.success + base.failure + 1
          /\ pc = "top" => promPush = promSuccess
          /\ promPull >= promPush)

C20_Witness ==
    /\ pc = "halted"
    /\ promFailure >= 1
    /\ promPull = 1

====
